---- MODULE Spec2Model ----
(***************************************************************************)
(* Work-Reward-Fine tracker (work_reward_fine_tracker_web_app_interactive). *)
(* The scoring function computeScores and the derived history summary      *)
(* (enriched, totals, completionSeries, timeSplit, rfSeries, streaks), and  *)
(* the handlers that change the stored entries (addOrUpdateEntry,          *)
(* deleteEntry, importFromExcel).  Which tab is shown and the copy of the  *)
(* state kept in localStorage are not part of the model.                   *)
(*                                                                         *)
(* JavaScript numbers that pass through a division are modelled as IEEE-   *)
(* 754 doubles: NaN, +Infinity, -Infinity, or a finite value held exactly  *)
(* (sign and fixed-point magnitude) and rounded to 53 significant bits     *)
(* after each operation.  -0 is identified with 0: it is falsy under ||,   *)
(* equal to 0 under === and neutral in the sums taken here.  Measurements, *)
(* targets and the fine amount are integers below 2^15 in magnitude (the   *)
(* values a number input yields).                                          *)
(***************************************************************************)
EXTENDS Integers, Sequences, FiniteSets, TLC

VARIABLES entries, settings, form, evaluation, view, reader

vars == <<entries, settings, form, evaluation, view, reader>>

---------------------------------------------------------------------------
(* Bounds of the checked inputs *)

\* how far above its default target a measurement ranges
MaxExcess == 1
\* longest history
MaxEntries == 3
\* dates are day numbers 1..MaxDate, ordered as their ISO strings are
MaxDate == 3
\* day numbers per year: the yyyy part changes every DaysInYear days
DaysInYear == 2
\* longest history of the long-history specification
MaxLongHistory == 40
\* longest entries list the form grows, in the store specification
MaxStored == 2
\* most rows of an imported sheet
MaxRows == 2

---------------------------------------------------------------------------
(* JavaScript numbers: IEEE-754 doubles *)

\* significant bits of a double
Precision == 53

\* A finite double is held exactly, as a sign and a magnitude counted in
\* units of 2^-FracBits: Limbs digits of base Base, least significant
\* first.  Every double met here (quotients of integers below Base in
\* magnitude, their sums, /4, *100) is a whole number of such units.
Base == 2^15

\* digits below the binary point
FracLimbs == 5

Limbs == FracLimbs + 2

FracBits == 15 * FracLimbs

Abs(i) == IF i < 0 THEN -i ELSE i

ZeroMag == [i \in 1..Limbs |-> 0]

\* the magnitude of the integer a, 0 <= a < Base * Base
MagOfInt(a) ==
  [i \in 1..Limbs |->
     IF i = FracLimbs + 1 THEN a % Base
     ELSE IF i = FracLimbs + 2 THEN a \div Base ELSE 0]

\* the integer part of a magnitude
IntPart(m) == m[FracLimbs + 1] + Base * m[FracLimbs + 2]

NaN == [k |-> "nan", s |-> 1, m |-> ZeroMag]
PosInf == [k |-> "inf", s |-> 1, m |-> ZeroMag]
NegInf == [k |-> "inf", s |-> -1, m |-> ZeroMag]

\* the double of sign s and magnitude m; a zero is +0
Dbl(s, m) == [k |-> "num", s |-> IF m = ZeroMag THEN 1 ELSE s, m |-> m]

\* the double of an integer
Num(i) == Dbl(IF i < 0 THEN -1 ELSE 1, MagOfInt(Abs(i)))

IsNum(x) == x.k = "num"

IsZero(x) == IsNum(x) /\ x.m = ZeroMag

\* -1, 0, 1 as magnitude x is below, equal to, above magnitude y
RECURSIVE MagCmpFrom(_, _, _)
MagCmpFrom(x, y, i) ==
  IF i = 0 THEN 0
  ELSE IF x[i] < y[i] THEN -1
  ELSE IF x[i] > y[i] THEN 1
  ELSE MagCmpFrom(x, y, i - 1)

MagCmp(x, y) == MagCmpFrom(x, y, Limbs)

\* x + y, digit by digit with carry
RECURSIVE MagAddFrom(_, _, _, _, _)
MagAddFrom(x, y, i, carry, acc) ==
  IF i > Limbs THEN acc
  ELSE LET v == x[i] + y[i] + carry
       IN MagAddFrom(x, y, i + 1, v \div Base, Append(acc, v % Base))

MagAdd(x, y) == MagAddFrom(x, y, 1, 0, <<>>)

\* x - y for x >= y, digit by digit with borrow
RECURSIVE MagSubFrom(_, _, _, _, _)
MagSubFrom(x, y, i, borrow, acc) ==
  IF i > Limbs THEN acc
  ELSE LET v == x[i] - y[i] - borrow
       IN MagSubFrom(x, y, i + 1, IF v < 0 THEN 1 ELSE 0,
                     Append(acc, IF v < 0 THEN v + Base ELSE v))

MagSub(x, y) == MagSubFrom(x, y, 1, 0, <<>>)

\* x * c for a small positive integer c
RECURSIVE MagTimesFrom(_, _, _, _, _)
MagTimesFrom(x, c, i, carry, acc) ==
  IF i > Limbs THEN acc
  ELSE LET v == x[i] * c + carry
       IN MagTimesFrom(x, c, i + 1, v \div Base, Append(acc, v % Base))

MagTimes(x, c) == MagTimesFrom(x, c, 1, 0, <<>>)

\* the quotient floor(x / c) and the remainder, for 0 < c < Base, from the
\* most significant digit down
RECURSIVE MagDivFrom(_, _, _, _, _)
MagDivFrom(x, c, i, rem, acc) ==
  IF i = 0 THEN [q |-> acc, r |-> rem]
  ELSE LET cur == rem * Base + x[i]
       IN MagDivFrom(x, c, i - 1, cur % c, <<cur \div c>> \o acc)

MagDiv(x, c) == MagDivFrom(x, c, Limbs, 0, <<>>)

\* the number of bits of a digit
DigitBits(v) == Cardinality({b \in 0..14 : 2^b <= v})

\* the number of bits of a magnitude
RECURSIVE BitLenFrom(_, _)
BitLenFrom(x, i) ==
  IF i = 0 THEN 0
  ELSE IF x[i] # 0 THEN 15 * (i - 1) + DigitBits(x[i])
  ELSE BitLenFrom(x, i - 1)

BitLen(x) == BitLenFrom(x, Limbs)

\* bit i (from 0) of a magnitude
BitAt(x, i) == (x[(i \div 15) + 1] \div 2^(i % 15)) % 2

\* some bit below bit p is set
AnyBelow(x, p) ==
  \/ \E j \in 1..(p \div 15) : x[j] # 0
  \/ x[(p \div 15) + 1] % 2^(p % 15) # 0

\* x with the bits below bit p cleared
ClearBelow(x, p) ==
  [j \in 1..Limbs |->
     IF j <= p \div 15 THEN 0
     ELSE IF j = (p \div 15) + 1 THEN x[j] - (x[j] % 2^(p % 15))
     ELSE x[j]]

Pow2Mag(p) ==
  [j \in 1..Limbs |-> IF j = (p \div 15) + 1 THEN 2^(p % 15) ELSE 0]

\* round to nearest, ties to even: the magnitude x, followed by further
\* non-zero bits below the last unit if sticky, rounded to Precision bits
RoundMag(x, sticky) ==
  LET p == BitLen(x) - Precision
  IN IF p <= 0 THEN x
     ELSE LET guard == BitAt(x, p - 1) = 1
              rest == sticky \/ AnyBelow(x, p - 1)
              odd == BitAt(x, p) = 1
              down == ClearBelow(x, p)
          IN IF guard /\ (rest \/ odd) THEN MagAdd(down, Pow2Mag(p)) ELSE down

\* a / b on two integers
JsDiv(a, b) ==
  IF b = 0
  THEN IF a = 0 THEN NaN ELSE IF a > 0 THEN PosInf ELSE NegInf
  ELSE LET d == MagDiv(MagOfInt(Abs(a)), Abs(b))
       IN Dbl(IF (a < 0) # (b < 0) THEN -1 ELSE 1, RoundMag(d.q, d.r # 0))

\* x + y
JsAdd(x, y) ==
  IF x.k = "nan" \/ y.k = "nan" THEN NaN
  ELSE IF x.k = "inf" /\ y.k = "inf" THEN (IF x.s = y.s THEN x ELSE NaN)
  ELSE IF x.k = "inf" THEN x
  ELSE IF y.k = "inf" THEN y
  ELSE IF x.s = y.s THEN Dbl(x.s, RoundMag(MagAdd(x.m, y.m), FALSE))
  ELSE IF MagCmp(x.m, y.m) >= 0
       THEN Dbl(x.s, RoundMag(MagSub(x.m, y.m), FALSE))
       ELSE Dbl(y.s, RoundMag(MagSub(y.m, x.m), FALSE))

\* x / c for a small positive integer literal c
JsDivBy(x, c) ==
  IF IsNum(x)
  THEN LET d == MagDiv(x.m, c) IN Dbl(x.s, RoundMag(d.q, d.r # 0))
  ELSE x

\* x * c for a small positive integer literal c
JsTimes(x, c) ==
  IF IsNum(x) THEN Dbl(x.s, RoundMag(MagTimes(x.m, c), FALSE)) ELSE x

\* x <= y for two finite doubles
NumLeq(x, y) ==
  IF x.s # y.s THEN x.s < y.s
  ELSE IF x.s = 1 THEN MagCmp(x.m, y.m) <= 0
  ELSE MagCmp(x.m, y.m) >= 0

\* Math.min(x, y): NaN if either is NaN
MathMin(x, y) ==
  IF x.k = "nan" \/ y.k = "nan" THEN NaN
  ELSE IF x.k = "inf" THEN (IF x.s < 0 THEN x ELSE y)
  ELSE IF y.k = "inf" THEN (IF y.s < 0 THEN y ELSE x)
  ELSE IF NumLeq(x, y) THEN x ELSE y

\* Math.max(a, b) on two integers
MathMax(a, b) == IF a >= b THEN a ELSE b

\* the fraction of a magnitude compared with one half: -1, 0, 1
FracVsHalf(m) ==
  LET top == m[FracLimbs]
      half == Base \div 2
  IN IF top < half THEN -1
     ELSE IF top > half \/ (\E j \in 1..(FracLimbs - 1) : m[j] # 0) THEN 1
     ELSE 0

\* Math.round(x): the integer nearest x, ties towards +Infinity
MathRound(x) ==
  IF ~IsNum(x) THEN x
  ELSE IF x.s = 1
       THEN Num(IntPart(x.m) + (IF FracVsHalf(x.m) >= 0 THEN 1 ELSE 0))
       ELSE Num(-(IntPart(x.m) + (IF FracVsHalf(x.m) > 0 THEN 1 ELSE 0)))

\* x || 0: x unless x is falsy (NaN, 0)
OrZero(x) == IF x.k = "nan" \/ IsZero(x) THEN Num(0) ELSE x

\* a double has an integer value
IsInteger(x) == IsNum(x) /\ \A j \in 1..FracLimbs : x.m[j] = 0

\* the value of an integer-valued double
ToInt(x) == x.s * IntPart(x.m)

---------------------------------------------------------------------------
(* Settings and scoring *)

defaultSettings ==
  [dsaQTarget |-> 3, aptQTarget |-> 20, webMinTarget |-> 90,
   engMinTarget |-> 30, fineAmount |-> 50,
   rewardText |-> "30 min entertainment"]

\* the score without Math.min's clamp
scoreUnclamped(actual, target) == OrZero(JsDiv(actual, target))

\* the score without the "|| 0" that turns NaN into 0
scoreNoFallback(actual, target) == MathMin(JsDiv(actual, target), Num(1))

\* Math.min(actual / target, 1) || 0
score(actual, target) == OrZero(MathMin(JsDiv(actual, target), Num(1)))

completionOf(dsaScore, aptScore, webScore, engScore) ==
  MathRound(JsTimes(JsDivBy(
    JsAdd(JsAdd(JsAdd(dsaScore, aptScore), webScore), engScore), 4), 100))

\* an outcome that is Reward from completion 99 on
outcomeFrom99(completion) ==
  IF completion = Num(100) \/ completion = Num(99) THEN "Reward"
  ELSE IF completion = Num(0) THEN "Missed" ELSE "Fine"

outcomeOf(completion) ==
  IF completion = Num(100) THEN "Reward"
  ELSE IF completion = Num(0) THEN "Missed" ELSE "Fine"

\* a fine charged on every day that is not a Reward
fineUnlessReward(outcome, s) == IF outcome # "Reward" THEN s.fineAmount ELSE 0

fineOf(outcome, s) == IF outcome = "Fine" THEN s.fineAmount ELSE 0

autoNoteOf(outcome, s) ==
  IF outcome = "Reward" THEN <<s.rewardText>>
  ELSE IF outcome = "Missed" THEN <<"Fine ", s.fineAmount, " + plan next day">>
  ELSE <<"Fine ", s.fineAmount>>

\* the body of computeScores once the four scores are known: completion,
\* outcome, and the returned object
gradeOf(dsaScore, aptScore, webScore, engScore, s) ==
  LET completion == completionOf(dsaScore, aptScore, webScore, engScore)
      outcome == outcomeOf(completion)
  IN [dsaScore |-> dsaScore, aptScore |-> aptScore, webScore |-> webScore,
      engScore |-> engScore, completion |-> completion, outcome |-> outcome,
      fine |-> fineOf(outcome, s), autoNote |-> autoNoteOf(outcome, s)]

computeScores(e, s) ==
  gradeOf(score(e.dsaQs, s.dsaQTarget), score(e.aptQs, s.aptQTarget),
          score(e.webMin, s.webMinTarget), score(e.engMin, s.engMinTarget), s)

---------------------------------------------------------------------------
(* Inputs of the scoring specification *)

\* the form as first rendered; the date is today's
initialForm ==
  [date |-> 1, dsaQs |-> 0, dsaMin |-> 0, aptQs |-> 0, aptMin |-> 0,
   webMin |-> 0, engMin |-> 0]

\* the values a measurement takes around a default target t, in the order
\* they are tried: zero, small, just short of t, t, beyond t, and negative
MeasureChoices(t) ==
  <<0, 1>> \o [i \in 1..(MaxExcess + 2) |-> t - 2 + i] \o <<-1>>

\* the values a target takes: its default, zero, and negative
TargetChoices(t) == <<t, 0, -1>>

FineChoices == <<defaultSettings.fineAmount, 0>>

InitGrade ==
  /\ entries = <<>>
  /\ \E a, b, c, d \in 1..3, f \in 1..2 :
       settings =
         [defaultSettings EXCEPT
            !.dsaQTarget = TargetChoices(defaultSettings.dsaQTarget)[a],
            !.aptQTarget = TargetChoices(defaultSettings.aptQTarget)[b],
            !.webMinTarget = TargetChoices(defaultSettings.webMinTarget)[c],
            !.engMinTarget = TargetChoices(defaultSettings.engMinTarget)[d],
            !.fineAmount = FineChoices[f]]
  /\ \E a, b, c, d \in 1..(MaxExcess + 5) :
       form =
         [initialForm EXCEPT
            !.dsaQs = MeasureChoices(defaultSettings.dsaQTarget)[a],
            !.aptQs = MeasureChoices(defaultSettings.aptQTarget)[b],
            !.webMin = MeasureChoices(defaultSettings.webMinTarget)[c],
            !.engMin = MeasureChoices(defaultSettings.engMinTarget)[d]]
  /\ evaluation = <<>>
  /\ view = <<>>
  /\ reader = <<>>

\* the "Today's Auto Evaluation" panel: computeScores(form, settings)
Evaluate ==
  /\ evaluation = <<>>
  /\ evaluation' = <<computeScores(form, settings)>>
  /\ UNCHANGED <<entries, settings, form, view, reader>>

NextGrade == Evaluate

SpecGrade == InitGrade /\ [][NextGrade]_vars

---------------------------------------------------------------------------
(* The derived history: enriched, totals, chart series, streaks *)

\* a.date.localeCompare(b.date) <= 0: dates are day numbers, ordered as
\* their yyyy-mm-dd strings are
dateLeq(a, b) == a.date <= b.date

\* one step of the stable sort: e goes after every element not later than it
RECURSIVE insertByDate(_, _)
insertByDate(sorted, e) ==
  IF sorted = <<>> THEN <<e>>
  ELSE IF dateLeq(sorted[Len(sorted)], e) THEN Append(sorted, e)
  ELSE Append(insertByDate(SubSeq(sorted, 1, Len(sorted) - 1), e),
              sorted[Len(sorted)])

RECURSIVE sortFrom(_, _, _)
sortFrom(arr, i, acc) ==
  IF i > Len(arr) THEN acc ELSE sortFrom(arr, i + 1, insertByDate(acc, arr[i]))

\* a sort that leaves the array as it is
unsorted(arr) == arr

\* arr.sort((a, b) => a.date.localeCompare(b.date)): the array's contents
\* after the (stable, in place) sort
sortByDate(arr) == sortFrom(arr, 1, <<>>)

\* entries.sort(...) without the slice(): the stored array itself is sorted
sortedInPlace(stored) ==
  [stored |-> sortByDate(stored), sorted |-> sortByDate(stored)]

\* entries.slice().sort(...): slice() allocates a copy, sort() reorders the
\* copy in place and returns it; the stored array is a different object
sortedCopy(stored) ==
  LET copy == stored
  IN [stored |-> stored, sorted |-> sortByDate(copy)]

\* { ...e, ...g }: the fields of the record e, then those of its grade g
spread(e, g) ==
  [date |-> e.date, dsaQs |-> e.dsaQs, dsaMin |-> e.dsaMin,
   aptQs |-> e.aptQs, aptMin |-> e.aptMin, webMin |-> e.webMin,
   engMin |-> e.engMin,
   dsaScore |-> g.dsaScore, aptScore |-> g.aptScore,
   webScore |-> g.webScore, engScore |-> g.engScore,
   completion |-> g.completion, outcome |-> g.outcome, fine |-> g.fine,
   autoNote |-> g.autoNote]

\* { ...e, ...computeScores(e, s) }
enrich(e, s) == spread(e, computeScores(e, s))

\* .map((e) => ({ ...e, ...computeScores(e, settings) })) on the sorted copy
enriched(sorted, s) == [i \in 1..Len(sorted) |-> enrich(sorted[i], s)]

totalsStart ==
  [dsa |-> 0, apt |-> 0, web |-> 0, eng |-> 0, rewards |-> 0, fines |-> 0,
   missed |-> 0, fineAmount |-> 0]

\* a reducer that leaves the Missed days uncounted
totalsStepNoMissed(acc, e) ==
  [dsa |-> acc.dsa + e.dsaQs,
   apt |-> acc.apt + e.aptQs,
   web |-> acc.web + e.webMin,
   eng |-> acc.eng + e.engMin,
   rewards |-> acc.rewards + (IF e.outcome = "Reward" THEN 1 ELSE 0),
   fines |-> acc.fines + (IF e.outcome = "Fine" THEN 1 ELSE 0),
   missed |-> acc.missed,
   fineAmount |-> acc.fineAmount + e.fine]

\* the reducer of totals
totalsStep(acc, e) ==
  [dsa |-> acc.dsa + e.dsaQs,
   apt |-> acc.apt + e.aptQs,
   web |-> acc.web + e.webMin,
   eng |-> acc.eng + e.engMin,
   rewards |-> acc.rewards + (IF e.outcome = "Reward" THEN 1 ELSE 0),
   fines |-> acc.fines + (IF e.outcome = "Fine" THEN 1 ELSE 0),
   missed |-> acc.missed + (IF e.outcome = "Missed" THEN 1 ELSE 0),
   fineAmount |-> acc.fineAmount + e.fine]

RECURSIVE totalsFrom(_, _, _)
totalsFrom(en, i, acc) ==
  IF i > Len(en) THEN acc ELSE totalsFrom(en, i + 1, totalsStep(acc, en[i]))

\* enriched.filter((e) => e.completion === 100).length
perfectCount(en) == Cardinality({i \in 1..Len(en) : en[i].completion = Num(100)})

\* a consistency that divides without looking at the length
consistencyUnguarded(en) ==
  MathRound(JsTimes(JsDiv(perfectCount(en), Len(en)), 100))

consistencyOf(en) ==
  IF Len(en) # 0
  THEN MathRound(JsTimes(JsDiv(perfectCount(en), Len(en)), 100))
  ELSE Num(0)

\* { ...t, consistency }
totals(en) ==
  LET t == totalsFrom(en, 1, totalsStart)
  IN [dsa |-> t.dsa, apt |-> t.apt, web |-> t.web, eng |-> t.eng,
      rewards |-> t.rewards, fines |-> t.fines, missed |-> t.missed,
      fineAmount |-> t.fineAmount, consistency |-> consistencyOf(en)]

\* e.date.slice(5): the mm-dd part of the date, the year dropped
monthDay(date) == ((date - 1) % DaysInYear) + 1

completionSeries(en) ==
  [i \in 1..Len(en) |->
     [date |-> monthDay(en[i].date), completion |-> en[i].completion]]

RECURSIVE sumOf(_, _, _)
sumOf(en, field, i) ==
  IF i > Len(en) THEN 0 ELSE en[i][field] + sumOf(en, field, i + 1)

timeSplit(en) ==
  << [name |-> "DSA Minutes", value |-> sumOf(en, "dsaMin", 1)],
     [name |-> "Aptitude Minutes", value |-> sumOf(en, "aptMin", 1)],
     [name |-> "Web Dev Minutes", value |-> sumOf(en, "webMin", 1)],
     [name |-> "English Minutes", value |-> sumOf(en, "engMin", 1)] >>

rfSeries(t) ==
  << [name |-> "Reward", value |-> t.rewards],
     [name |-> "Fine", value |-> t.fines],
     [name |-> "Missed", value |-> t.missed] >>

\* a loop body that never resets the running counter
streakStepNoReset(acc, e) ==
  IF e.completion = Num(100)
  THEN [curr |-> acc.curr + 1, best |-> MathMax(acc.best, acc.curr + 1)]
  ELSE acc

\* the loop body of streaks
streakStep(acc, e) ==
  IF e.completion = Num(100)
  THEN [curr |-> acc.curr + 1, best |-> MathMax(acc.best, acc.curr + 1)]
  ELSE [curr |-> 0, best |-> acc.best]

RECURSIVE streakFrom(_, _, _)
streakFrom(en, i, acc) ==
  IF i > Len(en) THEN acc ELSE streakFrom(en, i + 1, streakStep(acc, en[i]))

streaks(en) ==
  LET r == streakFrom(en, 1, [curr |-> 0, best |-> 0])
  IN [current |-> r.curr, best |-> r.best]

\* what one render derives from the enriched records
summaryOf(en) ==
  LET t == totals(en)
  IN [enriched |-> en, totals |-> t,
      completionSeries |-> completionSeries(en), timeSplit |-> timeSplit(en),
      rfSeries |-> rfSeries(t), streaks |-> streaks(en)]

\* everything one render derives from a sorted copy of the entries
derive(sorted, s) == summaryOf(enriched(sorted, s))

---------------------------------------------------------------------------
(* Inputs of the history specification *)

\* the days a history is made of, per date: nothing done (Missed), only the
\* DSA target met (Fine), every default target met (Reward)
sampleDay(date, kind) ==
  LET d == defaultSettings
  IN IF kind = 1
     THEN [date |-> date, dsaQs |-> 0, dsaMin |-> 0, aptQs |-> 0,
           aptMin |-> 0, webMin |-> 0, engMin |-> 0]
     ELSE IF kind = 2
     THEN [date |-> date, dsaQs |-> d.dsaQTarget, dsaMin |-> 45, aptQs |-> 0,
           aptMin |-> 0, webMin |-> 0, engMin |-> 0]
     ELSE [date |-> date, dsaQs |-> d.dsaQTarget, dsaMin |-> 60,
           aptQs |-> d.aptQTarget, aptMin |-> 25,
           webMin |-> d.webMinTarget, engMin |-> d.engMinTarget]

SampleDays == {sampleDay(date, kind) : date \in 1..MaxDate, kind \in 1..3}

\* histories of up to MaxEntries records, in any order, dates repeated or not
Histories ==
  UNION {[1..n -> SampleDays] : n \in 0..MaxEntries}

InitHistory ==
  /\ entries \in Histories
  /\ settings = defaultSettings
  /\ form = initialForm
  /\ evaluation = <<>>
  /\ view = <<>>
  /\ reader = <<>>

\* one render of the component: the derived data of lines 98-145
Render ==
  /\ view = <<>>
  /\ LET arrays == sortedCopy(entries)
     IN /\ entries' = arrays.stored
        /\ view' = <<derive(arrays.sorted, settings)>>
  /\ UNCHANGED <<settings, form, evaluation, reader>>

NextHistory == Render

SpecHistory == InitHistory /\ [][NextHistory]_vars

---------------------------------------------------------------------------
(* Inputs of the long-history specification *)

\* n consecutive days: k days with every default target met, then n - k
\* days with nothing done
longHistory(k, n) ==
  [i \in 1..n |-> IF i <= k THEN sampleDay(i, 3) ELSE sampleDay(i, 1)]

InitLongHistory ==
  /\ \E n \in 0..MaxLongHistory : \E k \in 0..n : entries = longHistory(k, n)
  /\ settings = defaultSettings
  /\ form = initialForm
  /\ evaluation = <<>>
  /\ view = <<>>
  /\ reader = <<>>

NextLongHistory == Render

SpecLongHistory == InitLongHistory /\ [][NextLongHistory]_vars

---------------------------------------------------------------------------
(* Inputs of the totals specification *)

\* the days of these histories: the three sample days, a day one minute
\* short of the web target only, and a day with a negative measurement
totalsDay(date, kind) ==
  IF kind <= 3 THEN sampleDay(date, kind)
  ELSE IF kind = 4 THEN [sampleDay(date, 3) EXCEPT !.webMin = @ - 1]
  ELSE [sampleDay(date, 1) EXCEPT !.dsaQs = -1]

\* the default settings, and the same with no fine, with a zero target, and
\* with a higher target
TotalsSettings ==
  {defaultSettings,
   [defaultSettings EXCEPT !.fineAmount = 0],
   [defaultSettings EXCEPT !.dsaQTarget = 0],
   [defaultSettings EXCEPT !.dsaQTarget = @ + MaxExcess]}

\* up to MaxEntries consecutive days of any kinds
InitTotals ==
  /\ \E n \in 0..MaxEntries : \E kinds \in [1..n -> 1..5] :
       entries = [i \in 1..n |-> totalsDay(i, kinds[i])]
  /\ settings \in TotalsSettings
  /\ form = initialForm
  /\ evaluation = <<>>
  /\ view = <<>>
  /\ reader = <<>>

NextTotals == Render

SpecTotals == InitTotals /\ [][NextTotals]_vars

---------------------------------------------------------------------------
(* Sheets, as XLSX.utils.sheet_to_json(sheet, { defval: "" }) yields them *)

\* A row is a function from the sheet's header names to cells.  A cell is
\* the empty string (defval), a number, or a text: a yyyy-mm-dd date, such
\* a date followed by a time, or one of Texts (neither number nor date).
\* undefined is what reading a column the sheet does not have gives.
Texts == <<"n/a", "Movie">>

Undefined == [t |-> "undefined", v |-> 0]
EmptyCell == [t |-> "empty", v |-> 0]
NumCell(n) == [t |-> "num", v |-> n]
TextCell(k) == [t |-> "text", v |-> k]
DateCell(d) == [t |-> "date", v |-> d]
StampCell(d) == [t |-> "stamp", v |-> d]

\* r[key], lookup.get(key)
Get(r, key) == IF key \in DOMAIN r THEN r[key] ELSE Undefined

\* a value is truthy: not undefined, not "", not 0
Truthy(c) == c.t \notin {"undefined", "empty"} /\ ~(c.t = "num" /\ c.v = 0)

\* a || b
OrElse(a, b) == IF Truthy(a) THEN a ELSE b

\* a ?? b
Coalesce(a, b) == IF a.t = "undefined" THEN b ELSE a

\* Date strings are numbers in the model: day d of a yyyy-mm-dd date is d
\* (1 and up), the empty string is 0, and every other string is negative.
\* c.toString().slice(0, 10): a date keeps its ten characters, a date with a
\* time loses the time, a short text is kept whole, a number becomes its
\* decimal text
dateStringOf(c) ==
  IF c.t \in {"date", "stamp"} THEN c.v
  ELSE IF c.t = "text" THEN -c.v
  ELSE IF c.t = "num" THEN -(2 * Base + c.v)
  ELSE 0

\* the string is a yyyy-mm-dd date
IsIsoDate(date) == date >= 1

\* Number(v): a number is itself, "" is 0, any other text here and
\* undefined are NaN
NumberOf(c) ==
  IF c.t = "num" THEN Num(c.v) ELSE IF c.t = "empty" THEN Num(0) ELSE NaN

\* parseMaybeNumber(v)
parseMaybeNumber(c) ==
  IF NumberOf(c).k = "nan" THEN 0 ELSE ToInt(NumberOf(c))

\* String(v)
StringOf(c) ==
  IF c.t = "text" THEN Texts[c.v]
  ELSE IF c.t = "num" THEN ToString(c.v)
  ELSE IF c.t = "empty" THEN ""
  ELSE "yyyy-mm-dd"

\* the first of the columns named in keys that the row has, else the number 0
RECURSIVE firstDefined(_, _)
firstDefined(r, keys) ==
  IF keys = <<>> THEN NumCell(0)
  ELSE Coalesce(Get(r, Head(keys)), firstDefined(r, Tail(keys)))

\* the entry a row is mapped to (the note is left out, as in every entry of
\* the model)
mapRow(r) ==
  [date |->
     dateStringOf(OrElse(Get(r, "Date"),
                  OrElse(Get(r, "date"), OrElse(Get(r, "DATE"), EmptyCell)))),
   dsaQs |-> parseMaybeNumber(firstDefined(r, <<"DSA Qs", "DSA", "dsa">>)),
   dsaMin |-> parseMaybeNumber(firstDefined(r, <<"DSA Minutes", "DSA Min">>)),
   aptQs |->
     parseMaybeNumber(
       firstDefined(r, <<"Aptitude Qs", "Apt Qs", "Aptitude">>)),
   aptMin |->
     parseMaybeNumber(firstDefined(r, <<"Aptitude Minutes", "Apt Min">>)),
   webMin |->
     parseMaybeNumber(
       firstDefined(r, <<"Web Dev Minutes", "Web Minutes", "Web">>)),
   engMin |->
     parseMaybeNumber(firstDefined(r, <<"English Minutes", "English">>))]

\* (e) => e.date: the date string is not empty
hasDate(e) == e.date # 0

\* json.map(...).filter((e) => e.date)
mapped(json) == SelectSeq([i \in 1..Len(json) |-> mapRow(json[i])], hasDate)

\* a setting read from the Settings sheet, the previous value if the sheet
\* does not name it
settingOf(lookup, key, prev) ==
  parseMaybeNumber(Coalesce(Get(lookup, key), NumCell(prev)))

\* the settings after a Settings sheet is read
importedSettings(lookup, prev) ==
  [dsaQTarget |-> settingOf(lookup, "DSA Q Target per day", prev.dsaQTarget),
   aptQTarget |->
     settingOf(lookup, "Aptitude Q Target per day", prev.aptQTarget),
   webMinTarget |->
     settingOf(lookup, "Web Dev Minutes Target per day", prev.webMinTarget),
   engMinTarget |->
     settingOf(lookup, "English Minutes Target per day", prev.engMinTarget),
   \* the key is "Fine Amount" followed by the rupee sign in brackets
   fineAmount |-> settingOf(lookup, "Fine Amount", prev.fineAmount),
   rewardText |->
     IF "Reward Text" \in DOMAIN lookup
     THEN StringOf(lookup["Reward Text"]) ELSE prev.rewardText]

---------------------------------------------------------------------------
(* The handlers that change the entries *)

\* curr.findIndex((e) => e.date === date): the first index, 0 for -1
findIndex(curr, date) ==
  IF \E i \in 1..Len(curr) : curr[i].date = date
  THEN CHOOSE i \in 1..Len(curr) :
         /\ curr[i].date = date
         /\ \A j \in 1..(i - 1) : curr[j].date # date
  ELSE 0

\* the updater of addOrUpdateEntry
addedOrUpdated(curr, f) ==
  IF findIndex(curr, f.date) > 0
  THEN [curr EXCEPT ![findIndex(curr, f.date)] = f]
  ELSE Append(curr, f)

\* curr.filter((e) => e.date !== date)
RECURSIVE without(_, _)
without(curr, date) ==
  IF curr = <<>> THEN <<>>
  ELSE IF Head(curr).date # date
       THEN <<Head(curr)>> \o without(Tail(curr), date)
       ELSE without(Tail(curr), date)

\* the date input of the form
setFormDate ==
  /\ \E d \in 1..MaxDate : form' = [form EXCEPT !.date = d]
  /\ UNCHANGED <<entries, settings, evaluation, view, reader>>

\* the DSA Qs input of the form
setFormDsaQs ==
  /\ \E n \in {0, defaultSettings.dsaQTarget} :
       form' = [form EXCEPT !.dsaQs = n]
  /\ UNCHANGED <<entries, settings, evaluation, view, reader>>

\* a click on a row of the log: the form takes the row's entry
editEntry ==
  /\ \E i \in 1..Len(entries) : form' = entries[i]
  /\ UNCHANGED <<entries, settings, evaluation, view, reader>>

\* Save Entry; the list grows no longer than MaxStored
addOrUpdateEntry ==
  /\ findIndex(entries, form.date) > 0 \/ Len(entries) < MaxStored
  /\ entries' = addedOrUpdated(entries, form)
  /\ UNCHANGED <<settings, form, evaluation, view, reader>>

\* the Delete button of a row of the log
deleteEntry ==
  /\ \E i \in 1..Len(entries) : entries' = without(entries, entries[i].date)
  /\ UNCHANGED <<settings, form, evaluation, view, reader>>

\* the files of the store specification: up to MaxRows rows, each a date
\* and a number of DSA questions, and no Settings sheet
StoreRows ==
  {("Date" :> DateCell(d)) @@ ("DSA Qs" :> NumCell(defaultSettings.dsaQTarget)) :
     d \in 1..MaxDate}

StoreFiles ==
  {[rows |-> rows, settings |-> <<>>] :
     rows \in UNION {[1..n -> StoreRows] : n \in 0..MaxRows}}

\* importFromExcel(file): the file is handed to a FileReader (one read at a
\* time here)
importFromExcel ==
  /\ reader = <<>>
  /\ \E file \in StoreFiles : reader' = <<file>>
  /\ UNCHANGED <<entries, settings, form, evaluation, view>>

\* reader.onload: setEntries(mapped), and setSettings if the workbook has a
\* Settings sheet
onload ==
  /\ reader # <<>>
  /\ entries' = mapped(reader[1].rows)
  /\ settings' =
       IF reader[1].settings # <<>>
       THEN importedSettings(reader[1].settings[1], settings)
       ELSE settings
  /\ reader' = <<>>
  /\ UNCHANGED <<form, evaluation, view>>

\* the entries the component starts from: a stored list with distinct dates
StoredDays ==
  {[initialForm EXCEPT !.date = d, !.dsaQs = n] :
     d \in 1..MaxDate, n \in {0, defaultSettings.dsaQTarget}}

InitStore ==
  /\ entries \in UNION {[1..n -> StoredDays] : n \in 0..MaxStored}
  /\ \A i, j \in 1..Len(entries) : i # j => entries[i].date # entries[j].date
  /\ settings = defaultSettings
  /\ form = initialForm
  /\ evaluation = <<>>
  /\ view = <<>>
  /\ reader = <<>>

NextStore ==
  \/ setFormDate
  \/ setFormDsaQs
  \/ editEntry
  \/ addOrUpdateEntry
  \/ deleteEntry
  \/ importFromExcel
  \/ onload

SpecStore == InitStore /\ [][NextStore]_vars

---------------------------------------------------------------------------
(* Inputs of the import specification *)

\* the header of the date column: two names the import knows, one it does not
DateHeaders == {"Date", "date", "Day"}

\* the header of the DSA questions column, likewise
DsaHeaders == {"DSA Qs", "DSA", "Solved"}

\* date cells: empty, a text that is no date, a date with a time, dates
DateCells ==
  {EmptyCell, TextCell(1), StampCell(1)} \cup {DateCell(d) : d \in 1..MaxDate}

\* number cells: empty, a number, a text that is no number
NumberCells == {EmptyCell, NumCell(defaultSettings.dsaQTarget), TextCell(1)}

ImportRows(dateHeader, dsaHeader) ==
  {(dateHeader :> dc) @@ (dsaHeader :> nc) :
     dc \in DateCells, nc \in NumberCells}

\* a Settings sheet that names a fine amount, a reward text and, as a text
\* that is no number, the DSA target
SettingsSheet ==
  ("Fine Amount" :> NumCell(2 * defaultSettings.fineAmount))
    @@ ("Reward Text" :> TextCell(2))
    @@ ("DSA Q Target per day" :> TextCell(1))

ImportFiles ==
  {[rows |-> rows, settings |-> st] :
     rows \in UNION {[1..n -> ImportRows(dh, nh)] : n \in 0..MaxRows,
                     dh \in DateHeaders, nh \in DsaHeaders},
     st \in {<<>>, <<SettingsSheet>>}}

\* one entry is stored and a file has been handed to the reader
InitImport ==
  /\ entries = <<[initialForm EXCEPT !.dsaQs = 1]>>
  /\ settings = defaultSettings
  /\ form = initialForm
  /\ evaluation = <<>>
  /\ view = <<>>
  /\ reader \in {<<file>> : file \in ImportFiles}

NextImport == onload

SpecImport == InitImport /\ [][NextImport]_vars

---------------------------------------------------------------------------
(* Claims about computeScores, checked under SpecGrade *)

Evaluated == evaluation # <<>>

ev == evaluation[1]

MeetsEveryTarget ==
  /\ form.dsaQs >= settings.dsaQTarget
  /\ form.aptQs >= settings.aptQTarget
  /\ form.webMin >= settings.webMinTarget
  /\ form.engMin >= settings.engMinTarget

EveryTargetPositive ==
  /\ settings.dsaQTarget > 0
  /\ settings.aptQTarget > 0
  /\ settings.webMinTarget > 0
  /\ settings.engMinTarget > 0

AllMeasurementsZero ==
  /\ form.dsaQs = 0
  /\ form.aptQs = 0
  /\ form.webMin = 0
  /\ form.engMin = 0

Scores == <<ev.dsaScore, ev.aptScore, ev.webScore, ev.engScore>>

Targets ==
  <<settings.dsaQTarget, settings.aptQTarget, settings.webMinTarget,
    settings.engMinTarget>>

Measurements == <<form.dsaQs, form.aptQs, form.webMin, form.engMin>>

\* C1 as stated: whenever each of the four scored measurements is at least
\* its target (a target of 0 with a measurement of 0 included), completion
\* is 100 and the outcome is Reward.
C1_MeetingTargetsIsReward ==
  (Evaluated /\ MeetsEveryTarget) =>
    (ev.completion = Num(100) /\ ev.outcome = "Reward")

\* C1 amended: whenever every target is positive and each of the four scored
\* measurements is at least its target, completion is 100 and the outcome
\* is Reward, however far the targets are exceeded.
C1_MeetingPositiveTargetsIsReward ==
  (Evaluated /\ EveryTargetPositive /\ MeetsEveryTarget) =>
    (ev.completion = Num(100) /\ ev.outcome = "Reward")

\* a graded day whose measurements all exceed positive targets
C1_Witness ==
  /\ Evaluated
  /\ EveryTargetPositive
  /\ \A i \in 1..4 : Measurements[i] > Targets[i]
  /\ ev.completion = Num(100)
  /\ ev.outcome = "Reward"

\* C2 as stated: a dimension whose target is 0 scores exactly 0 for every
\* measurement value.
C2_ZeroTargetScoresZero ==
  Evaluated => \A i \in 1..4 : (Targets[i] = 0 => Scores[i] = Num(0))

\* C3 as stated: whatever the measurements are, each of the four scores is
\* a number in [0,1] and completion is an integer in [0,100].
C3_ScoresAndCompletionInRange ==
  Evaluated =>
    /\ \A i \in 1..4 :
         /\ IsNum(Scores[i])
         /\ NumLeq(Num(0), Scores[i])
         /\ NumLeq(Scores[i], Num(1))
    /\ IsInteger(ev.completion)
    /\ ToInt(ev.completion) \in 0..100

\* C4: with all four scored measurements 0, under every target
\* configuration, completion is 0, the outcome is Missed, the fine is 0 and
\* every score is the number 0 (no NaN reaches the result).
C4_AllZeroIsMissed ==
  (Evaluated /\ AllMeasurementsZero) =>
    /\ \A i \in 1..4 : Scores[i] = Num(0)
    /\ ev.completion = Num(0)
    /\ ev.outcome = "Missed"
    /\ ev.fine = 0

\* an all-zero day graded against a configuration with a zero target, a
\* positive target and a non-zero fine amount
C4_Witness ==
  /\ Evaluated
  /\ AllMeasurementsZero
  /\ settings.dsaQTarget = 0
  /\ settings.webMinTarget > 0
  /\ settings.fineAmount > 0
  /\ ev.outcome = "Missed"

\* C5: the outcome is decided by completion alone: Reward exactly when
\* completion is 100, Missed exactly when it is 0, Fine otherwise; the fine
\* is settings.fineAmount on a Fine day and 0 on a Reward or Missed day.
C5_OutcomeByCompletion ==
  Evaluated =>
    /\ ev.outcome \in {"Reward", "Missed", "Fine"}
    /\ (ev.outcome = "Reward") <=> (ev.completion = Num(100))
    /\ (ev.outcome = "Missed") <=> (ev.completion = Num(0))
    /\ (ev.outcome = "Fine") => (ev.fine = settings.fineAmount)
    /\ (ev.outcome # "Fine") => (ev.fine = 0)
    /\ (/\ IsInteger(ev.completion)
        /\ 0 < ToInt(ev.completion)
        /\ ToInt(ev.completion) < 100) =>
         (ev.outcome = "Fine" /\ ev.fine = settings.fineAmount)

\* the day {dsaQs: 3, others 0} under the default settings: scores
\* [1,0,0,0], completion 25, Fine, fine 50
C5_Witness ==
  /\ Evaluated
  /\ settings = defaultSettings
  /\ Measurements = <<3, 0, 0, 0>>
  /\ Scores = <<Num(1), Num(0), Num(0), Num(0)>>
  /\ ev.completion = Num(25)
  /\ ev.outcome = "Fine"
  /\ ev.fine = 50

---------------------------------------------------------------------------
(* Claims about the derived history, checked under SpecHistory *)

Rendered == view # <<>>

vw == view[1]

Perfect(en, i) == en[i].completion = Num(100)

\* en[i..j] is a run of completion = 100 records
IsRun(en, i, j) == \A k \in i..j : Perfect(en, k)

MaxOf(S) == CHOOSE m \in S : \A x \in S : x <= m

\* the length of the longest run of completion = 100 records anywhere in en
LongestRun(en) ==
  MaxOf({0} \cup
        {n \in 1..Len(en) :
           \E i \in 1..(Len(en) - n + 1) : IsRun(en, i, i + n - 1)})

\* the length of the run of completion = 100 records that ends at the last
TrailingRun(en) ==
  MaxOf({n \in 0..Len(en) : IsRun(en, Len(en) - n + 1, Len(en))})

InDateOrder(en) == \A i, j \in 1..Len(en) : i < j => en[i].date <= en[j].date

\* the stored fields of a graded record
stored(g) ==
  [date |-> g.date, dsaQs |-> g.dsaQs, dsaMin |-> g.dsaMin, aptQs |-> g.aptQs,
   aptMin |-> g.aptMin, webMin |-> g.webMin, engMin |-> g.engMin]

Permuted(es, p) == [i \in 1..Len(es) |-> es[p[i]]]

\* en holds exactly the records of es, each as often as es does
SameRecords(en, es) ==
  /\ Len(en) = Len(es)
  /\ \E p \in Permutations(1..Len(es)) :
       \A i \in 1..Len(es) : stored(en[i]) = es[p[i]]

DistinctDates(es) ==
  \A i, j \in 1..Len(es) : i # j => es[i].date # es[j].date

\* es without every record that a later record of the same date follows
RECURSIVE lastPerDate(_)
lastPerDate(es) ==
  IF es = <<>> THEN <<>>
  ELSE IF \E j \in 2..Len(es) : es[j].date = es[1].date
       THEN lastPerDate(Tail(es))
       ELSE <<es[1]>> \o lastPerDate(Tail(es))

\* C6: over the history in ascending date order, streaks.best is the length
\* of the longest run of consecutive completion = 100 records and
\* streaks.current the length of the run that ends at the last record (0 if
\* the last record is not a Reward day or the history is empty).
C6_Streaks ==
  Rendered =>
    /\ InDateOrder(vw.enriched)
    /\ vw.streaks.best = LongestRun(vw.enriched)
    /\ vw.streaks.current = TrailingRun(vw.enriched)
    /\ (vw.enriched = <<>> \/ ~Perfect(vw.enriched, Len(vw.enriched)))
         => vw.streaks.current = 0

\* a three-day history, stored out of date order, whose two Reward days are
\* followed by a day that is not: best 2, current 0
C6_Witness ==
  /\ Rendered
  /\ Len(entries) = 3
  /\ ~InDateOrder(entries)
  /\ vw.streaks.best = 2
  /\ vw.streaks.current = 0

\* C7 as stated: for a non-empty history consistency is 100 * (records with
\* completion = 100) / (records) rounded to the nearest integer (a tie goes
\* up, as Math.round and round-half-even both send 57.5 to 58) and lies in
\* [0,100]; for the empty history it is 0; the history [Reward, Fine] has
\* consistency 50, rewards 1, fines 1.
C7_Consistency ==
  Rendered =>
    LET en == vw.enriched
        c == ToInt(vw.totals.consistency)
        k == Cardinality({i \in 1..Len(en) : Perfect(en, i)})
    IN /\ IsInteger(vw.totals.consistency) /\ c \in 0..100
       /\ Len(en) = 0 => c = 0
       /\ Len(en) > 0 =>
            /\ 2 * Len(en) * c - Len(en) <= 200 * k
            /\ 200 * k < 2 * Len(en) * c + Len(en)
       /\ (Len(en) = 2 /\ en[1].outcome = "Reward" /\ en[2].outcome = "Fine")
            => (c = 50 /\ vw.totals.rewards = 1 /\ vw.totals.fines = 1)

EmptyTotalsAndStreaks ==
  /\ vw.enriched = <<>>
  /\ vw.totals =
       [dsa |-> 0, apt |-> 0, web |-> 0, eng |-> 0, rewards |-> 0,
        fines |-> 0, missed |-> 0, fineAmount |-> 0, consistency |-> Num(0)]
  /\ vw.streaks = [current |-> 0, best |-> 0]

\* C8 as stated: the empty history yields consistency 0, every total and
\* count 0, current and best streak 0, and empty chart series.
C8_EmptyHistoryEmptySeries ==
  (Rendered /\ entries = <<>>) =>
    /\ EmptyTotalsAndStreaks
    /\ vw.completionSeries = <<>>
    /\ vw.timeSplit = <<>>
    /\ vw.rfSeries = <<>>

\* C8 amended: the empty history yields consistency 0, every total and
\* count 0, current and best streak 0 and an empty completion series; the
\* time-split series keeps its four points and the outcome series its three
\* points, each with value 0.
C8_EmptyHistory ==
  (Rendered /\ entries = <<>>) =>
    /\ EmptyTotalsAndStreaks
    /\ vw.completionSeries = <<>>
    /\ Len(vw.timeSplit) = 4
    /\ \A i \in 1..4 : vw.timeSplit[i].value = 0
    /\ Len(vw.rfSeries) = 3
    /\ \A i \in 1..3 : vw.rfSeries[i].value = 0

\* the empty history, rendered
C8_Witness == Rendered /\ entries = <<>> /\ vw.totals.consistency = Num(0)

\* C9: a render leaves the stored entries (same records, same order) and
\* the settings as they were; the derived sequence holds exactly the stored
\* records in non-decreasing date order; and for entries with distinct
\* dates everything derived is the same for every order of the entries.
C9_DerivingLeavesInputs ==
  [][(view = <<>> /\ view' # <<>>) =>
       /\ entries' = entries
       /\ settings' = settings
       /\ InDateOrder(view'[1].enriched)
       /\ SameRecords(view'[1].enriched, entries)
       /\ DistinctDates(entries) =>
            \A p \in Permutations(1..Len(entries)) :
               derive(sortedCopy(Permuted(entries, p)).sorted, settings)
                 = view'[1]]_vars

\* a rendered three-day history with distinct dates stored latest first
C9_Witness ==
  /\ Rendered
  /\ Len(entries) = 3
  /\ DistinctDates(entries)
  /\ entries[1].date > entries[2].date
  /\ entries[2].date > entries[3].date
  /\ InDateOrder(vw.enriched)
  /\ vw.enriched[1].date = entries[3].date

\* C10 as stated: when several entries have the same date, totals, outcome
\* counts, consistency, streaks and the completion series are those of the
\* history that keeps only the last record of each date.
C10_LastOccurrencePreferred ==
  Rendered =>
    LET last == derive(sortedCopy(lastPerDate(entries)).sorted, settings)
    IN /\ vw.totals = last.totals
       /\ vw.streaks = last.streaks
       /\ vw.completionSeries = last.completionSeries

---------------------------------------------------------------------------
(* Claims about the stored entries, checked under SpecStore and SpecImport *)

\* C11 as stated: starting from entries with distinct dates, after any
\* sequence of addOrUpdateEntry, deleteEntry and importFromExcel operations
\* the entries list holds at most one record per date.
C11_OneRecordPerDate == DistinctDates(entries)

\* a step in which the reader delivers its file
Delivered == reader # <<>> /\ reader' = <<>>

\* the cell of a row in the date column, under whichever known header
dateCellOf(r) ==
  IF DOMAIN r \cap {"Date", "date", "DATE"} = {} THEN Undefined
  ELSE r[CHOOSE h \in DOMAIN r \cap {"Date", "date", "DATE"} : TRUE]

\* the cell of a row in the DSA questions column, under whichever known
\* header
dsaCellOf(r) ==
  IF DOMAIN r \cap {"DSA Qs", "DSA", "dsa"} = {} THEN Undefined
  ELSE r[CHOOSE h \in DOMAIN r \cap {"DSA Qs", "DSA", "dsa"} : TRUE]

\* the row's date cell is a date
ParseableDate(r) == dateCellOf(r).t \in {"date", "stamp"}

\* C12 as stated: on import every row whose date cell is not a parseable
\* date (empty, or a text that is no date) is dropped, so that every record
\* of the resulting entries has a valid yyyy-mm-dd date and there is one
\* record per row with a parseable date; and every numeric field whose
\* column is missing, unmatched or not a number is 0.
C12_ImportDropsBadRows ==
  [][Delivered =>
       LET rows == reader[1].rows
       IN /\ \A i \in 1..Len(entries') : IsIsoDate(entries'[i].date)
          /\ Len(entries') =
               Cardinality({i \in 1..Len(rows) : ParseableDate(rows[i])})
          /\ \A i \in 1..Len(rows) :
               /\ dsaCellOf(rows[i]).t # "num" => mapRow(rows[i]).dsaQs = 0
               /\ mapRow(rows[i]).dsaMin = 0
               /\ mapRow(rows[i]).aptQs = 0
               /\ mapRow(rows[i]).aptMin = 0
               /\ mapRow(rows[i]).webMin = 0
               /\ mapRow(rows[i]).engMin = 0]_vars

---------------------------------------------------------------------------
(* Claims about the totals, checked under SpecTotals *)

\* C13: for every history and configuration, totals.rewards + totals.fines
\* + totals.missed is the number of records, totals.rewards is the number
\* of records with completion = 100, and totals.fineAmount is totals.fines
\* times settings.fineAmount.
C13_OutcomeCountsPartition ==
  Rendered =>
    /\ vw.totals.rewards + vw.totals.fines + vw.totals.missed = Len(entries)
    /\ vw.totals.rewards =
         Cardinality({i \in 1..Len(vw.enriched) : Perfect(vw.enriched, i)})
    /\ vw.totals.fineAmount = vw.totals.fines * settings.fineAmount

\* a rendered three-day history with a Reward, a Fine and a Missed day and
\* a non-zero fine amount
C13_Witness ==
  /\ Rendered
  /\ Len(entries) = 3
  /\ vw.totals.rewards = 1
  /\ vw.totals.fines = 1
  /\ vw.totals.missed = 1
  /\ vw.totals.fineAmount = defaultSettings.fineAmount

---------------------------------------------------------------------------
(* A claim about near misses, checked under SpecGrade *)

NonNegativeMeasurements == \A i \in 1..4 : Measurements[i] >= 0

\* every measurement is at least 98% of its target
WithinTwoPercent ==
  \A i \in 1..4 : 50 * (Targets[i] - Measurements[i]) <= Targets[i]

\* C14 as stated: with positive targets and non-negative measurements the
\* outcome is Reward (completion = 100) only if every one of the four
\* scored measurements is at least its target.
C14_RewardOnlyIfEveryTargetMet ==
  (/\ Evaluated
   /\ EveryTargetPositive
   /\ NonNegativeMeasurements
   /\ (ev.outcome = "Reward" \/ ev.completion = Num(100))) => MeetsEveryTarget

\* C14 amended: with positive targets and non-negative measurements the
\* outcome is Reward (completion = 100) only if every one of the four
\* scored measurements is at least 98% of its target.
C14_RewardOnlyIfNearlyMet ==
  (/\ Evaluated
   /\ EveryTargetPositive
   /\ NonNegativeMeasurements
   /\ (ev.outcome = "Reward" \/ ev.completion = Num(100))) => WithinTwoPercent

\* a day one minute short of the web target, every other target met, graded
\* Reward with completion 100
C14_Witness ==
  /\ Evaluated
  /\ EveryTargetPositive
  /\ NonNegativeMeasurements
  /\ form.webMin = settings.webMinTarget - 1
  /\ form.dsaQs >= settings.dsaQTarget
  /\ form.aptQs >= settings.aptQTarget
  /\ form.engMin >= settings.engMinTarget
  /\ ev.completion = Num(100)
  /\ ev.outcome = "Reward"

====
